---- MODULE Spec2Model ----
(***************************************************************************)
(* ccui: a retained-mode node tree for terminal UIs.  One owning loop       *)
(* (RenderLoop::run) drains a bounded command channel, polls the terminal,  *)
(* forwards raw events on a bounded output channel, dispatches pointer      *)
(* events to the node under the cursor, then lays the tree out and renders. *)
(*                                                                         *)
(* Spec      the owning loop with its two channels and the producers.       *)
(* TreeSpec  the Node operations of internal/mod.rs and the dispatcher of   *)
(*           internal/render.rs applied one call at a time to the tree.     *)
(* StyleSpec one call of Style::calculate_children_areas on drawn inputs.   *)
(* BuildSpec the tree built through Document and ContainerHandle, one       *)
(*           container with widget leaves under it, and laid out.           *)
(* IdSpec    threads calling ListenerId::new on the one static COUNTER.     *)
(* ChannelSpec the owning loop with the consumer of its events and the      *)
(*           dropping of the Document and of the handles; LiveSpec adds     *)
(*           the fairness of the loop's task.                               *)
(* FrameSpec the owning loop with the raw events waiting at the terminal    *)
(*           and the tree each frame rendered.                              *)
(* ListenerSpec calls that add and remove nodes and listeners, lay the tree *)
(*           out and dispatch presses, with the listeners of removed nodes. *)
(***************************************************************************)
EXTENDS Integers, Sequences, FiniteSets, Bags, TLC

VARIABLES
    root,        \* RenderLoop.root: the node tree
    ui_q,        \* commands buffered in the ui_tx/ui_rx channel
    event_q,     \* events buffered in the event_tx/event_rx channel
    pc,          \* position of RenderLoop::run inside one iteration
    pending,     \* Option<Event>: the event the loop is awaiting to send
    history,     \* ghost: every command accepted by try_send, in order
    nApplied,    \* ghost: number of commands the loop has applied
    submit,      \* ghost: "Ok" or "Full" when the latest step was a submission
    last,        \* ghost: the operation applied to the tree by the latest step
    invoked,     \* ghost: bag of listener invocations made by the latest step
    nOps,        \* ghost: number of calls made so far (TreeSpec)
    nPolled,     \* ghost: number of raw events read from the terminal
    owners,      \* who still holds the caller's channel ends
    polled,      \* ghost: the raw events read from the terminal, in order
    received,    \* ghost: the events the caller has received, in order
    input,       \* FrameSpec: the raw events waiting at the terminal, in order
    drawn,       \* ghost: Option of the tree as the latest frame rendered it
    orphaned,    \* ghost: ids of the listeners that were on a node when it was removed
    calc,        \* StyleSpec: the call of calculate_children_areas and its outcome
    COUNTER,     \* IdSpec: the static AtomicU64 of ListenerId::new
    id_calls,    \* IdSpec: per thread, where its call of ListenerId::new stands
    id_log       \* ghost: the ids returned so far, in the order of the returns

vars == <<root, ui_q, event_q, pc, pending, history, nApplied, submit, last,
          invoked, nOps, nPolled, owners, polled, received, input, drawn, orphaned,
          calc, COUNTER, id_calls, id_log>>

(***************************************************************************)
(* Bounds of the model                                                     *)
(***************************************************************************)
\* mpsc::channel(100) of document.rs:234, scaled down
UiCapacity == 2
\* mpsc::channel(100) of document.rs:235, scaled down
EventCapacity == 1
\* commands accepted over one run of Spec
MaxCmds == 3
\* raw terminal events read over one run of Spec
MaxPolled == 2
\* calls made over one run of TreeSpec
MaxOps == 4
\* terminal size reported by the backend (f.area())
ScreenW == 2
ScreenH == 2
\* ListenerId values handed out by ListenerId::new
MaxListenerIds == 2
\* children handed to one call of calculate_children_areas (StyleSpec)
MaxChildren == 3
\* width and height of the parent areas of StyleSpec
MaxExtent == 3
\* calls of ListenerId::new over one run of IdSpec
MaxIdCalls == 4
MaxFrameCmds == 4
MaxListenerOps == 7

(***************************************************************************)
(* Option<T>                                                               *)
(***************************************************************************)
None == <<>>
Some(v) == <<v>>

(***************************************************************************)
(* u16 arithmetic                                                          *)
(***************************************************************************)
U16Modulus == 65536
U16Max == U16Modulus - 1
U16Add(a, b) == (a + b) % U16Modulus
U16Mul(a, b) == (a * b) % U16Modulus
SaturatingSub(a, b) == IF a >= b THEN a - b ELSE 0
SaturatingAdd(a, b) == IF a + b > U16Max THEN U16Max ELSE a + b
Min(a, b) == IF a <= b THEN a ELSE b
Max(a, b) == IF a >= b THEN a ELSE b

(***************************************************************************)
(* ratatui::layout::Rect                                                   *)
(***************************************************************************)
Rect(x, y, w, h) == [x |-> x, y |-> y, width |-> w, height |-> h]
RectDefault == Rect(0, 0, 0, 0)
\* Rect::contains: x in [r.x, r.right()), y in [r.y, r.bottom())
RectContains(r, x, y) ==
    /\ x >= r.x
    /\ x < SaturatingAdd(r.x, r.width)
    /\ y >= r.y
    /\ y < SaturatingAdd(r.y, r.height)

(***************************************************************************)
(* style.rs                                                                *)
(***************************************************************************)
RectOffset(t, r, b, l) == [top |-> t, right |-> r, bottom |-> b, left |-> l]
RectOffsetAll(v) == RectOffset(v, v, v, v)
RectOffsetDefault == RectOffset(0, 0, 0, 0)

StyleDefault ==
    [display        |-> "Tiled",
     flex_direction |-> "Column",
     width          |-> "Auto",
     height         |-> "Auto",
     gap            |-> 0,
     padding        |-> RectOffsetDefault,
     margin         |-> RectOffsetDefault]
StyleNew == StyleDefault
StyleRow(s) == [s EXCEPT !.flex_direction = "Row"]
StyleColumn(s) == [s EXCEPT !.flex_direction = "Column"]
StyleGap(s, g) == [s EXCEPT !.gap = g]
StylePaddingAll(s, v) == [s EXCEPT !.padding = RectOffsetAll(v)]
StylePadding(s, padding) == [s EXCEPT !.padding = padding]

\* calculate_children_areas with the Column branch leaving the height undivided
CalculateChildrenAreasColumnUndivided(style, parent_area, n_children) ==
    IF n_children = 0 THEN <<>>
    ELSE
      LET content_x == U16Add(parent_area.x, style.padding.left)
          content_y == U16Add(parent_area.y, style.padding.top)
          content_w == SaturatingSub(parent_area.width,
                           U16Add(style.padding.left, style.padding.right))
          content_h == SaturatingSub(parent_area.height,
                           U16Add(style.padding.top, style.padding.bottom))
          n16       == n_children % U16Modulus
          total_gap == U16Mul(style.gap, n16 - 1)
      IN IF style.flex_direction = "Row"
         THEN LET available_width == SaturatingSub(content_w, total_gap)
                  child_width     == available_width \div n16
              IN [k \in 1..n_children |->
                    Rect(U16Add(content_x,
                                U16Mul((k - 1) % U16Modulus,
                                       U16Add(child_width, style.gap))),
                         content_y, child_width, content_h)]
         ELSE LET available_height == SaturatingSub(content_h, total_gap)
                  child_height     == available_height
              IN [k \in 1..n_children |->
                    Rect(content_x,
                         U16Add(content_y,
                                U16Mul((k - 1) % U16Modulus,
                                       U16Add(child_height, style.gap))),
                         content_w, child_height)]

\* Style::calculate_children_areas
CalculateChildrenAreas(style, parent_area, n_children) ==
    IF n_children = 0 THEN <<>>
    ELSE
      LET content_x == U16Add(parent_area.x, style.padding.left)
          content_y == U16Add(parent_area.y, style.padding.top)
          content_w == SaturatingSub(parent_area.width,
                           U16Add(style.padding.left, style.padding.right))
          content_h == SaturatingSub(parent_area.height,
                           U16Add(style.padding.top, style.padding.bottom))
          n16       == n_children % U16Modulus
          total_gap == U16Mul(style.gap, n16 - 1)
      IN IF style.flex_direction = "Row"
         THEN LET available_width == SaturatingSub(content_w, total_gap)
                  child_width     == available_width \div n16
              IN [k \in 1..n_children |->
                    Rect(U16Add(content_x,
                                U16Mul((k - 1) % U16Modulus,
                                       U16Add(child_width, style.gap))),
                         content_y, child_width, content_h)]
         ELSE LET available_height == SaturatingSub(content_h, total_gap)
                  child_height     == available_height \div n16
              IN [k \in 1..n_children |->
                    Rect(content_x,
                         U16Add(content_y,
                                U16Mul((k - 1) % U16Modulus,
                                       U16Add(child_height, style.gap))),
                         content_w, child_height)]

\* an arithmetic step of calculate_children_areas leaves the range of u16:
\* a panic where the build checks overflow, a wrapped value where it does not
CalculateChildrenAreasOverflows(style, parent_area, n_children) ==
    LET n16       == n_children % U16Modulus
        row       == style.flex_direction = "Row"
        content_w == SaturatingSub(parent_area.width,
                         U16Add(style.padding.left, style.padding.right))
        content_h == SaturatingSub(parent_area.height,
                         U16Add(style.padding.top, style.padding.bottom))
        total_gap == U16Mul(style.gap, n16 - 1)
        size      == SaturatingSub(IF row THEN content_w ELSE content_h, total_gap)
                       \div n16
        start     == IF row THEN U16Add(parent_area.x, style.padding.left)
                            ELSE U16Add(parent_area.y, style.padding.top)
    IN \/ parent_area.x + style.padding.left > U16Max
       \/ parent_area.y + style.padding.top > U16Max
       \/ style.padding.left + style.padding.right > U16Max
       \/ style.padding.top + style.padding.bottom > U16Max
       \/ n16 = 0
       \/ style.gap * (n16 - 1) > U16Max
       \/ size + style.gap > U16Max
       \/ \E i \in 0..(n_children - 1) :
             \/ (i % U16Modulus) * (size + style.gap) > U16Max
             \/ start + (i % U16Modulus) * (size + style.gap) > U16Max

\* the ways a call of calculate_children_areas ends: the Vec it returns, or a
\* panic (an overflow the build checks; the division by n_children as u16
\* when that is 0, in every build)
CalcOutcome(style, parent_area, n_children, overflow_checks) ==
    IF n_children = 0 THEN [panic |-> FALSE, areas |-> <<>>]
    ELSE IF \/ n_children % U16Modulus = 0
            \/ overflow_checks
                 /\ CalculateChildrenAreasOverflows(style, parent_area, n_children)
         THEN [panic |-> TRUE, areas |-> <<>>]
         ELSE [panic |-> FALSE,
               areas |-> CalculateChildrenAreas(style, parent_area, n_children)]

(***************************************************************************)
(* widget/mod.rs, widget/text.rs                                           *)
(* A widget is its kind and, for Text, the display width of each line of    *)
(* its content.  "Fill" is a widget that keeps the trait's defaults.        *)
(***************************************************************************)
NoWidget == [kind |-> "None", lines |-> <<>>]
FillWidget == [kind |-> "Fill", lines |-> <<>>]
TextWidget(lines) == [kind |-> "Text", lines |-> lines]

RECURSIVE TextTotalLines(_, _)
\* the `for line in self.content.lines()` loop of Text::content_size
TextTotalLines(lines, max_width) ==
    IF lines = <<>> THEN 0
    ELSE Max((Head(lines) + max_width - 1) \div max_width, 1)
         + TextTotalLines(Tail(lines), max_width)

RECURSIVE TextMaxLineWidth(_)
TextMaxLineWidth(lines) ==
    IF lines = <<>> THEN 0
    ELSE Max(Head(lines), TextMaxLineWidth(Tail(lines)))

\* Widget::content_size: <<width, height>>
ContentSize(widget, area) ==
    IF widget.kind = "Text"
    THEN IF area.width = 0 THEN <<0, 0>>
         ELSE <<Min(TextMaxLineWidth(widget.lines), area.width),
                TextTotalLines(widget.lines, area.width) % U16Modulus>>
    ELSE <<area.width, area.height>>

\* Widget::node_style_hint
NodeStyleHint(widget) ==
    IF widget.kind = "Text" THEN Some(StyleColumn(StyleNew)) ELSE None

UnwrapOrDefault(opt) == IF opt = None THEN StyleDefault ELSE opt[1]

(***************************************************************************)
(* event.rs                                                                *)
(***************************************************************************)
EventTypes == {"Click", "DoubleClick", "RightClick", "ScrollUp", "ScrollDown", "Hover"}

\* EventContext built by dispatch_mouse_event
EventContext(event_type, target_id, mouse_x, mouse_y, scroll_delta) ==
    [event_type   |-> event_type,
     target_id    |-> target_id,
     mouse_x      |-> Some(mouse_x),
     mouse_y      |-> Some(mouse_y),
     scroll_delta |-> scroll_delta,
     key_code     |-> None]

(***************************************************************************)
(* internal/mod.rs: Node                                                   *)
(* listeners, a HashMap<EventType, HashMap<ListenerId, EventListener>>, is  *)
(* the set of its (event_type, listener_id, listener) entries.              *)
(***************************************************************************)
\* a node created with the cell at the origin as its area
MakeNodeLaidOut(id, style, widget) ==
    [id           |-> id,
     style        |-> style,
     area         |-> Rect(0, 0, 1, 1),
     content_area |-> Rect(0, 0, 1, 1),
     widget       |-> widget,
     children     |-> <<>>,
     listeners    |-> {}]

\* the fields of Node::new and of the Node literals of add_widget_box and
\* add_container
MakeNode(id, style, widget) ==
    [id           |-> id,
     style        |-> style,
     area         |-> RectDefault,
     content_area |-> RectDefault,
     widget       |-> widget,
     children     |-> <<>>,
     listeners    |-> {}]

\* Node::new
NodeNew(id) == MakeNode(id, StyleColumn(StyleNew), NoWidget)

RECURSIVE Layout(_, _)
RECURSIVE LayoutChildren(_, _, _)
RECURSIVE LayoutChildrenSameArea(_, _, _)
\* the loop of Node::layout handing the first area to every child
LayoutChildrenSameArea(children, child_areas, k) ==
    IF k > Len(children) THEN <<>>
    ELSE <<Layout(children[k], child_areas[1])>>
           \o LayoutChildrenSameArea(children, child_areas, k + 1)

\* the loop of Node::layout over the children zipped with their areas
LayoutChildren(children, child_areas, k) ==
    IF k > Len(children) THEN <<>>
    ELSE <<Layout(children[k], child_areas[k])>>
           \o LayoutChildren(children, child_areas, k + 1)

\* Node::layout
Layout(node, parent_area) ==
    LET area == parent_area
        content_area ==
            IF node.widget # NoWidget
            THEN LET wh == ContentSize(node.widget, area)
                 IN Rect(area.x, area.y, wh[1], wh[2])
            ELSE area
        child_areas == CalculateChildrenAreas(node.style, area, Len(node.children))
    IN [node EXCEPT
          !.area = area,
          !.content_area = content_area,
          !.children = LayoutChildren(node.children, child_areas, 1)]

RECURSIVE FindWidgetAt(_, _, _)
RECURSIVE FindWidgetAtChildren(_, _, _, _)
\* find_widget_at without the early return for a point outside the node's area
FindWidgetAtNoAreaCheck(node, x, y) ==
    LET r == FindWidgetAtChildren(node.children, 1, x, y)
    IN IF r # None THEN r
       ELSE IF node.widget # NoWidget /\ RectContains(node.content_area, x, y)
            THEN Some(node.id)
       ELSE IF node.widget = NoWidget THEN Some(node.id)
       ELSE None

\* find_widget_at matching a widget node on its area, content or not
FindWidgetAtWholeArea(node, x, y) ==
    IF ~RectContains(node.area, x, y) THEN None
    ELSE LET r == FindWidgetAtChildren(node.children, 1, x, y)
         IN IF r # None THEN r ELSE Some(node.id)

\* find_widget_at testing the node itself before its children
FindWidgetAtSelfFirst(node, x, y) ==
    IF ~RectContains(node.area, x, y) THEN None
    ELSE IF node.widget # NoWidget /\ RectContains(node.content_area, x, y)
         THEN Some(node.id)
    ELSE IF node.widget = NoWidget THEN Some(node.id)
    ELSE FindWidgetAtChildren(node.children, 1, x, y)

\* the `for child in &self.children` loop of Node::find_widget_at
FindWidgetAtChildren(children, k, x, y) ==
    IF k > Len(children) THEN None
    ELSE LET r == FindWidgetAt(children[k], x, y)
         IN IF r # None THEN r ELSE FindWidgetAtChildren(children, k + 1, x, y)

RECURSIVE FindWidgetAtPath(_, _, _)
RECURSIVE FindWidgetAtPathChildren(_, _, _, _)
\* the loop of find_widget_at, with the position of the child that answers
FindWidgetAtPathChildren(children, k, x, y) ==
    IF k > Len(children) THEN None
    ELSE LET r == FindWidgetAtPath(children[k], x, y)
         IN IF r # None THEN Some(<<k>> \o r[1])
            ELSE FindWidgetAtPathChildren(children, k + 1, x, y)

\* find_widget_at, with the position of the node whose id is returned
FindWidgetAtPath(node, x, y) ==
    IF ~RectContains(node.area, x, y) THEN None
    ELSE LET r == FindWidgetAtPathChildren(node.children, 1, x, y)
         IN IF r # None THEN r
            ELSE IF node.widget # NoWidget /\ RectContains(node.content_area, x, y)
                 THEN Some(<<>>)
            ELSE IF node.widget = NoWidget THEN Some(<<>>)
            ELSE None

\* Node::find_widget_at
FindWidgetAt(node, x, y) ==
    IF ~RectContains(node.area, x, y) THEN None
    ELSE LET r == FindWidgetAtChildren(node.children, 1, x, y)
         IN IF r # None THEN r
            ELSE IF node.widget # NoWidget /\ RectContains(node.content_area, x, y)
                 THEN Some(node.id)
            ELSE IF node.widget = NoWidget THEN Some(node.id)
            ELSE None

\* Node::trigger_event: one invocation per listener registered for the type
TriggerEvent(node, event_type, ctx) ==
    LET hit == {e \in node.listeners : e.event_type = event_type}
    IN SetToBag({[listener_id |-> e.listener_id, listener |-> e.listener, ctx |-> ctx]
                  : e \in hit})

RECURSIVE FindChildMut(_, _)
RECURSIVE FindChildMutChildren(_, _, _)
\* the `for child in &mut self.children` loop of Node::find_child_mut
FindChildMutChildren(children, k, id) ==
    IF k > Len(children) THEN None
    ELSE LET r == FindChildMut(children[k], id)
         IN IF r # None THEN Some(<<k>> \o r[1])
            ELSE FindChildMutChildren(children, k + 1, id)

\* Node::find_child_mut: the found node as the path of child indexes to it
FindChildMut(node, id) ==
    IF node.id = id THEN Some(<<>>)
    ELSE FindChildMutChildren(node.children, 1, id)

RECURSIVE NodeAt(_, _)
\* the node a path refers to
NodeAt(node, path) ==
    IF path = <<>> THEN node ELSE NodeAt(node.children[Head(path)], Tail(path))

RECURSIVE ReplaceAt(_, _, _)
\* a write through the &mut Node a path refers to
ReplaceAt(node, path, new) ==
    IF path = <<>> THEN new
    ELSE [node EXCEPT !.children[Head(path)] = ReplaceAt(@, Tail(path), new)]

\* add_widget_box falling back to the node it is called on when no parent is found
AddWidgetBoxOrHere(node, parent_id, id, widget, style) ==
    LET found == FindChildMut(node, parent_id)
        path  == IF found = None THEN <<>> ELSE found[1]
    IN ReplaceAt(node, path,
         [NodeAt(node, path) EXCEPT !.children = Append(@, MakeNode(id, style, widget))])

\* Node::add_widget_box
AddWidgetBox(node, parent_id, id, widget, style) ==
    LET found == FindChildMut(node, parent_id)
    IN IF found = None THEN node
       ELSE LET parent == NodeAt(node, found[1])
            IN ReplaceAt(node, found[1],
                 [parent EXCEPT !.children = Append(@, MakeNode(id, style, widget))])

\* Node::add_container
AddContainer(node, parent_id, id, style) ==
    LET found == FindChildMut(node, parent_id)
    IN IF found = None THEN node
       ELSE LET parent == NodeAt(node, found[1])
            IN ReplaceAt(node, found[1],
                 [parent EXCEPT !.children = Append(@, MakeNode(id, style, NoWidget))])

\* remove_child rebuilding the matched node from scratch
RemoveChildRebuild(node, id) ==
    IF node.id = id
    THEN MakeNode(node.id, StyleDefault, NoWidget)
    ELSE [node EXCEPT !.children = SelectSeq(@, LAMBDA child : child.id # id)]

\* remove_child keeping on the node it is called on the listeners of the
\* children it removes
RemoveChildHoistsListeners(node, id) ==
    IF node.id = id
    THEN [node EXCEPT !.widget = NoWidget, !.children = <<>>, !.listeners = {}]
    ELSE [node EXCEPT
            !.children = SelectSeq(@, LAMBDA child : child.id # id),
            !.listeners = @ \cup UNION {node.children[k].listeners :
                                           k \in {j \in 1..Len(node.children) :
                                                    node.children[j].id = id}}]

\* remove_child dropping the node it is called on when the id names it
RemoveChildDropsSelf(node, id) ==
    IF node.id = id
    THEN MakeNode("", StyleDefault, NoWidget)
    ELSE [node EXCEPT !.children = SelectSeq(@, LAMBDA child : child.id # id)]

\* Node::remove_child
RemoveChild(node, id) ==
    IF node.id = id
    THEN [node EXCEPT !.widget = NoWidget, !.children = <<>>, !.listeners = {}]
    ELSE [node EXCEPT !.children = SelectSeq(@, LAMBDA child : child.id # id)]

\* Node::update_widget_box
UpdateWidgetBox(node, id, widget) ==
    LET found == FindChildMut(node, id)
    IN IF found = None THEN node
       ELSE ReplaceAt(node, found[1], [NodeAt(node, found[1]) EXCEPT !.widget = widget])

\* Node::update_style
UpdateStyle(node, id, style) ==
    LET found == FindChildMut(node, id)
    IN IF found = None THEN node
       ELSE ReplaceAt(node, found[1], [NodeAt(node, found[1]) EXCEPT !.style = style])

\* HashMap::insert on listeners[event_type]
ListenersInsert(listeners, event_type, listener_id, listener) ==
    {e \in listeners : ~(e.event_type = event_type /\ e.listener_id = listener_id)}
      \cup {[event_type |-> event_type, listener_id |-> listener_id,
             listener |-> listener]}

RECURSIVE AddEventListener(_, _, _, _, _)
RECURSIVE AddEventListenerChildren(_, _, _, _, _, _)
\* the loop of Node::add_event_listener over the children
AddEventListenerChildren(children, k, target_id, event_type, listener, listener_id) ==
    IF k > Len(children) THEN <<>>
    ELSE <<AddEventListener(children[k], target_id, event_type, listener, listener_id)>>
           \o AddEventListenerChildren(children, k + 1, target_id, event_type,
                                       listener, listener_id)

\* Node::add_event_listener
AddEventListener(node, target_id, event_type, listener, listener_id) ==
    IF node.id = target_id
    THEN [node EXCEPT !.listeners = ListenersInsert(@, event_type, listener_id, listener)]
    ELSE [node EXCEPT !.children =
            AddEventListenerChildren(node.children, 1, target_id, event_type,
                                     listener, listener_id)]

\* remove_event_listener without the walk over the children
RemoveEventListenerHere(node, listener_id) ==
    [node EXCEPT !.listeners = {e \in @ : e.listener_id # listener_id}]

RECURSIVE RemoveEventListener(_, _)
RECURSIVE RemoveEventListenerChildren(_, _, _)
\* the loop of Node::remove_event_listener over the children
RemoveEventListenerChildren(children, k, listener_id) ==
    IF k > Len(children) THEN <<>>
    ELSE <<RemoveEventListener(children[k], listener_id)>>
           \o RemoveEventListenerChildren(children, k + 1, listener_id)

\* Node::remove_event_listener
RemoveEventListener(node, listener_id) ==
    [node EXCEPT
       !.listeners = {e \in @ : e.listener_id # listener_id},
       !.children = RemoveEventListenerChildren(node.children, 1, listener_id)]

(***************************************************************************)
(* internal/render.rs: the dispatcher                                      *)
(***************************************************************************)
MouseEventKinds ==
    {"Down", "Up", "Drag", "Moved", "ScrollDown", "ScrollUp", "ScrollLeft"}

MouseEvent(kind, column, row) == [kind |-> kind, column |-> column, row |-> row]

\* the kind match with a press taken for a release
MouseEventTypePressSwallowed(kind) ==
    CASE kind = "Moved"      -> Some("Hover")
      [] kind = "ScrollUp"   -> Some("ScrollUp")
      [] kind = "ScrollDown" -> Some("ScrollDown")
      [] OTHER               -> None

\* the kind match with a drag taken for a press
MouseEventTypeDragClicks(kind) ==
    CASE kind = "Down"       -> Some("Click")
      [] kind = "Drag"       -> Some("Click")
      [] kind = "Moved"      -> Some("Hover")
      [] kind = "ScrollUp"   -> Some("ScrollUp")
      [] kind = "ScrollDown" -> Some("ScrollDown")
      [] OTHER               -> None

\* the `match mouse.kind` of dispatch_mouse_event: Option<EventType>
MouseEventType(kind) ==
    CASE kind = "Down"       -> Some("Click")
      [] kind = "Up"         -> None
      [] kind = "Drag"       -> None
      [] kind = "Moved"      -> Some("Hover")
      [] kind = "ScrollUp"   -> Some("ScrollUp")
      [] kind = "ScrollDown" -> Some("ScrollDown")
      [] OTHER               -> None

ScrollDelta(kind) ==
    CASE kind = "ScrollUp"   -> Some(1)
      [] kind = "ScrollDown" -> Some(-1)
      [] OTHER               -> None

\* dispatch_mouse_event triggering the listeners of the root after the target's
DispatchMouseEventBubbling(tree, mouse) ==
    LET event_type == MouseEventType(mouse.kind)
    IN IF event_type = None THEN EmptyBag
       ELSE LET target == FindWidgetAt(tree, mouse.column, mouse.row)
            IN IF target = None THEN EmptyBag
               ELSE LET ctx == EventContext(event_type[1], target[1], mouse.column,
                                            mouse.row, ScrollDelta(mouse.kind))
                        found == FindChildMut(tree, target[1])
                    IN IF found = None THEN EmptyBag
                       ELSE TriggerEvent(NodeAt(tree, found[1]), event_type[1], ctx)
                              (+) (IF found[1] = <<>> THEN EmptyBag
                                   ELSE TriggerEvent(tree, event_type[1], ctx))

\* RenderLoop::dispatch_mouse_event: the bag of listener invocations it makes
DispatchMouseEvent(tree, mouse) ==
    LET event_type == MouseEventType(mouse.kind)
    IN IF event_type = None THEN EmptyBag
       ELSE LET target == FindWidgetAt(tree, mouse.column, mouse.row)
            IN IF target = None THEN EmptyBag
               ELSE LET ctx == EventContext(event_type[1], target[1], mouse.column,
                                            mouse.row, ScrollDelta(mouse.kind))
                        found == FindChildMut(tree, target[1])
                    IN IF found = None THEN EmptyBag
                       ELSE TriggerEvent(NodeAt(tree, found[1]), event_type[1], ctx)

(***************************************************************************)
(* event.rs: UiMessage, and its application by RenderLoop::run             *)
(***************************************************************************)
MsgAddWidget(parent_id, id, widget, style) ==
    [type |-> "AddWidget", parent_id |-> parent_id, id |-> id, widget |-> widget,
     style |-> style]
MsgAddContainer(parent_id, id, style) ==
    [type |-> "AddContainer", parent_id |-> parent_id, id |-> id, style |-> style]
MsgRemoveWidget(id) == [type |-> "RemoveWidget", id |-> id]
MsgUpdateWidget(id, widget) == [type |-> "UpdateWidget", id |-> id, widget |-> widget]
MsgAddEventListener(target_id, event_type, listener, listener_id) ==
    [type |-> "AddEventListener", target_id |-> target_id, event_type |-> event_type,
     listener |-> listener, listener_id |-> listener_id]
MsgRemoveEventListener(listener_id) ==
    [type |-> "RemoveEventListener", listener_id |-> listener_id]

\* the `match msg` of RenderLoop::run
ApplyMessage(tree, msg) ==
    CASE msg.type = "AddWidget" ->
           AddWidgetBox(tree, msg.parent_id, msg.id, msg.widget, msg.style)
      [] msg.type = "AddContainer" ->
           AddContainer(tree, msg.parent_id, msg.id, msg.style)
      [] msg.type = "RemoveWidget" -> RemoveChild(tree, msg.id)
      [] msg.type = "UpdateWidget" -> UpdateWidgetBox(tree, msg.id, msg.widget)
      [] msg.type = "AddEventListener" ->
           AddEventListener(tree, msg.target_id, msg.event_type, msg.listener,
                            msg.listener_id)
      [] msg.type = "RemoveEventListener" ->
           RemoveEventListener(tree, msg.listener_id)

(***************************************************************************)
(* Inputs                                                                  *)
(***************************************************************************)
RootId == "root"
NodeIds == {"btn", "col"}
TargetIds == {RootId} \cup NodeIds
Widgets == {FillWidget, TextWidget(<<1>>)}
Styles == {StyleDefault, StyleGap(StyleRow(StyleNew), 1)}
ListenerIds == 0..(MaxListenerIds - 1)
Callbacks == {"cb"}
ListenedTypes == {"Click", "Hover", "ScrollUp", "ScrollDown"}
ScreenArea == Rect(0, 0, ScreenW, ScreenH)
\* pointer positions: every cell of the screen and the cells just past its edges
Columns == 0..ScreenW
Rows == 0..ScreenH
MouseEvents == {MouseEvent(k, c, r) : k \in MouseEventKinds, c \in Columns, r \in Rows}

NoMouse == MouseEvent("None", 0, 0)

(***************************************************************************)
(* Views of the tree used to state the properties                          *)
(***************************************************************************)
RECURSIVE Nodes(_, _)
\* every node of a tree with its depth below the tree's top
Nodes(node, depth) ==
    {[node |-> node, depth |-> depth]}
      \cup UNION {Nodes(node.children[k], depth + 1) : k \in 1..Len(node.children)}

LiveIds(tree) == {e.node.id : e \in Nodes(tree, 0)}
NodesWithId(tree, id) == {e \in Nodes(tree, 0) : e.node.id = id}
Holders(tree, listener_id) ==
    {e \in Nodes(tree, 0) : \E l \in e.node.listeners : l.listener_id = listener_id}

\* ghost record of one call: its name, the id and listener id it names, the
\* pointer event it dispatches, and `seen`: how many nodes the call's id (or
\* listener id) named in the tree it was applied to (for a removal naming the
\* tree's top node: how many descendants that node had)
Op(op, id, listener_id, mouse, seen) ==
    [op |-> op, id |-> id, listener_id |-> listener_id, mouse |-> mouse, seen |-> seen]
NoOp == Op("none", "", -1, NoMouse, 0)
OpOnId(op, id, tree) == Op(op, id, -1, NoMouse, Cardinality(NodesWithId(tree, id)))
OpOfMessage(msg, tree) ==
    CASE msg.type \in {"AddWidget", "AddContainer"} -> OpOnId(msg.type, msg.parent_id, tree)
      [] msg.type = "UpdateWidget" -> OpOnId(msg.type, msg.id, tree)
      [] msg.type = "RemoveWidget" ->
           Op(msg.type, msg.id, -1, NoMouse,
              IF msg.id = tree.id THEN Cardinality(Nodes(tree, 0)) - 1
              ELSE Cardinality(NodesWithId(tree, msg.id)))
      [] msg.type = "AddEventListener" ->
           Op(msg.type, msg.target_id, msg.listener_id, NoMouse,
              Cardinality(NodesWithId(tree, msg.target_id)))
      [] msg.type = "RemoveEventListener" ->
           Op(msg.type, "", msg.listener_id, NoMouse,
              Cardinality(Holders(tree, msg.listener_id)))

(***************************************************************************)
(* Initial state: RenderLoop::new, empty channels                          *)
(***************************************************************************)
\* the threads that register listeners
IdThreads == {"t1", "t2", "t3"}
\* a thread outside ListenerId::new; floor is the largest id returned to any
\* thread before the thread's latest call started, -1 when there was none
NoIdCall == [at |-> "out", id |-> -1, floor |-> -1]

\* calculate_children_areas not called yet
NoCalc == [called |-> FALSE, style |-> StyleDefault, parent_area |-> RectDefault,
           n |-> 0, overflow_checks |-> FALSE,
           outcome |-> [panic |-> FALSE, areas |-> <<>>]]

Init ==
    /\ root = NodeNew(RootId)
    /\ ui_q = <<>>
    /\ event_q = <<>>
    /\ pc = "drain"
    /\ pending = None
    /\ history = <<>>
    /\ nApplied = 0
    /\ submit = "none"
    /\ last = NoOp
    /\ invoked = EmptyBag
    /\ nOps = 0
    /\ nPolled = 0
    /\ owners = "document"
    /\ polled = <<>>
    /\ received = <<>>
    /\ input = <<>>
    /\ drawn = None
    /\ orphaned = {}
    /\ calc = NoCalc
    /\ COUNTER = 0
    /\ id_calls = [t \in IdThreads |-> NoIdCall]
    /\ id_log = <<>>

\* the tree, the loop and its channels
programVars == <<root, ui_q, event_q, pc, pending, history, nApplied, submit, last,
                 invoked, nOps, nPolled, owners, polled, received, input, drawn,
                 orphaned>>
idVars == <<COUNTER, id_calls, id_log>>
\* what the calls on the tree and the steps of the loop leave alone
pureVars == <<calc, idVars, orphaned>>
loopVars == <<ui_q, event_q, pc, pending, history, nApplied, nPolled, owners,
              polled, received, input, drawn, pureVars>>

(***************************************************************************)
(* TreeSpec: one call of a Node method, or of the dispatcher, per step      *)
(***************************************************************************)
Call(op, tree, bag) ==
    /\ nOps < MaxOps
    /\ nOps' = nOps + 1
    /\ root' = tree
    /\ last' = op
    /\ invoked' = bag
    /\ submit' = "none"
    /\ UNCHANGED loopVars

\* a call the loop makes for a UiMessage
CallMessage(msg) == Call(OpOfMessage(msg, root), ApplyMessage(root, msg), EmptyBag)

TAddWidget ==
    \E parent_id \in TargetIds, id \in NodeIds, widget \in Widgets :
        CallMessage(MsgAddWidget(parent_id, id, widget,
                                 UnwrapOrDefault(NodeStyleHint(widget))))

TAddContainer ==
    \E parent_id \in TargetIds, id \in NodeIds, style \in Styles :
        CallMessage(MsgAddContainer(parent_id, id, style))

TRemoveChild ==
    \E id \in TargetIds : CallMessage(MsgRemoveWidget(id))

TUpdateWidget ==
    \E id \in TargetIds, widget \in Widgets : CallMessage(MsgUpdateWidget(id, widget))

TUpdateStyle ==
    \E id \in TargetIds, style \in Styles :
        Call(OpOnId("UpdateStyle", id, root), UpdateStyle(root, id, style), EmptyBag)

TAddEventListener ==
    \E target_id \in TargetIds, event_type \in ListenedTypes,
       listener \in Callbacks, listener_id \in ListenerIds :
        CallMessage(MsgAddEventListener(target_id, event_type, listener, listener_id))

TRemoveEventListener ==
    \E listener_id \in ListenerIds : CallMessage(MsgRemoveEventListener(listener_id))

TLayout ==
    Call(Op("Layout", "", -1, NoMouse, 0), Layout(root, ScreenArea), EmptyBag)

TDispatch ==
    \E mouse \in MouseEvents :
        Call(Op("Dispatch", "", -1, mouse, 0), root, DispatchMouseEvent(root, mouse))

TreeNext ==
    \/ TAddWidget
    \/ TAddContainer
    \/ TRemoveChild
    \/ TUpdateWidget
    \/ TUpdateStyle
    \/ TAddEventListener
    \/ TRemoveEventListener
    \/ TLayout
    \/ TDispatch

TreeSpec == Init /\ [][TreeNext]_vars

(***************************************************************************)
(* document.rs: what the handles submit                                    *)
(***************************************************************************)
\* Document::add_container
DocumentAddContainer(id, style) == MsgAddContainer(RootId, id, style)
\* Document::add_widget
DocumentAddWidget(id, widget) ==
    MsgAddWidget(RootId, id, widget, UnwrapOrDefault(NodeStyleHint(widget)))
\* ContainerHandle::add_container
ContainerHandleAddContainer(self_id, id, style) == MsgAddContainer(self_id, id, style)
\* ContainerHandle::add_widget
ContainerHandleAddWidget(self_id, id, widget) ==
    MsgAddWidget(self_id, id, widget, UnwrapOrDefault(NodeStyleHint(widget)))
\* WidgetHandle::update, Document::update_widget
WidgetHandleUpdate(self_id, widget) == MsgUpdateWidget(self_id, widget)
\* WidgetHandle::remove, Document::remove_widget
WidgetHandleRemove(self_id) == MsgRemoveWidget(self_id)

BtnId == "btn"
ColId == "col"
\* the commands the producers of Spec submit
Messages ==
    {DocumentAddContainer(ColId, StyleDefault),
     DocumentAddWidget(BtnId, TextWidget(<<1>>)),
     ContainerHandleAddWidget(ColId, BtnId, TextWidget(<<1>>)),
     WidgetHandleUpdate(BtnId, FillWidget),
     WidgetHandleRemove(BtnId),
     WidgetHandleRemove(ColId),
     MsgAddEventListener(BtnId, "Click", "cb", 0),
     MsgRemoveEventListener(0)}

\* the raw events crossterm::event::read returns
TermKey == [type |-> "Key", mouse |-> NoMouse]
TermMouse(mouse) == [type |-> "Mouse", mouse |-> mouse]
TermResize == [type |-> "Resize", mouse |-> NoMouse]
TermFocus == [type |-> "FocusGained", mouse |-> NoMouse]
TermEvents == {TermKey, TermMouse(MouseEvent("Down", 0, 0)), TermResize, TermFocus}
Forwarded == {"Key", "Mouse", "Resize"}

\* Sender::try_send on the command channel
TrySendUnbounded(q, msg) == [result |-> "Ok", queue |-> Append(q, msg)]

TrySend(q, msg) ==
    IF Len(q) < UiCapacity
    THEN [result |-> "Ok", queue |-> Append(q, msg)]
    ELSE [result |-> "Full", queue |-> q]

\* Sender::send on the event channel delivering the event twice
ChannelSendTwice(q, ev) == Append(Append(q, ev), ev)

\* Sender::send on the event channel, once it has room
ChannelSend(q, ev) == Append(q, ev)

\* Receiver::try_recv on a non-empty command channel
TryRecvNewest(q) == [msg |-> q[Len(q)], queue |-> SubSeq(q, 1, Len(q) - 1)]

TryRecv(q) == [msg |-> Head(q), queue |-> Tail(q)]

(***************************************************************************)
(* Spec: RenderLoop::run, the producers and the consumer of events         *)
(***************************************************************************)
treeGhosts == <<nOps, pureVars, input, drawn>>

\* a producer calls add_container, add_widget, update or remove on a handle
SubmitOf(msgs, max) ==
    \E msg \in msgs :
        /\ owners # "none"
        /\ Len(history) < max \/ Len(ui_q) >= UiCapacity
        /\ LET r == TrySend(ui_q, msg)
           IN /\ ui_q' = r.queue
              /\ submit' = r.result
              /\ history' = IF r.result = "Ok" THEN Append(history, msg) ELSE history
        /\ last' = NoOp
        /\ invoked' = EmptyBag
        /\ UNCHANGED <<root, event_q, pc, pending, nApplied, nPolled, treeGhosts, owners,
                       polled, received>>

Submit == SubmitOf(Messages, MaxCmds)

\* one turn of `while let Ok(msg) = ui_rx.try_recv()`
DrainOne ==
    /\ pc = "drain"
    /\ ui_q # <<>>
    /\ LET r == TryRecv(ui_q)
       IN /\ ui_q' = r.queue
          /\ root' = ApplyMessage(root, r.msg)
          /\ last' = OpOfMessage(r.msg, root)
    /\ nApplied' = nApplied + 1
    /\ invoked' = EmptyBag
    /\ submit' = "none"
    /\ UNCHANGED <<event_q, pc, pending, history, nPolled, treeGhosts, owners, polled,
                   received>>

\* try_recv finds the channel empty: the drain ends
DrainEnd ==
    /\ pc = "drain"
    /\ ui_q = <<>>
    /\ pc' = "poll"
    /\ last' = NoOp
    /\ invoked' = EmptyBag
    /\ submit' = "none"
    /\ UNCHANGED <<root, ui_q, event_q, pending, history, nApplied, nPolled,
                   treeGhosts, owners, polled, received>>

\* the loop polling the terminal again after it handled an event
AfterSendPollAgain(ev) ==
    /\ pc' = "poll"
    /\ pending' = None
    /\ IF ev.type = "Mouse"
       THEN /\ last' = Op("Dispatch", "", -1, ev.mouse, 0)
            /\ invoked' = DispatchMouseEvent(root, ev.mouse)
       ELSE /\ last' = NoOp
            /\ invoked' = EmptyBag

\* what follows a completed event_tx.send(..).await: the dispatch of a pointer event
AfterSend(ev) ==
    /\ pc' = "draw"
    /\ pending' = None
    /\ IF ev.type = "Mouse"
       THEN /\ last' = Op("Dispatch", "", -1, ev.mouse, 0)
            /\ invoked' = DispatchMouseEvent(root, ev.mouse)
       ELSE /\ last' = NoOp
            /\ invoked' = EmptyBag

\* crossterm::event::poll reports nothing to read (or poll or read fails)
PollNothing ==
    /\ pc = "poll"
    /\ pc' = "draw"
    /\ last' = NoOp
    /\ invoked' = EmptyBag
    /\ submit' = "none"
    /\ UNCHANGED <<root, ui_q, event_q, pending, history, nApplied, nPolled,
                   treeGhosts, owners, polled, received>>

\* one raw event is read; Key, Mouse and Resize are sent on event_tx with
\* send(..).await, which completes at once while the channel has room, and
\* with an error, dropped by `let _ =`, once the receiver is gone
PollRead(ev) ==
    /\ pc = "poll"
    /\ nPolled < MaxPolled
    /\ nPolled' = nPolled + 1
    /\ submit' = "none"
    /\ IF ev.type \notin Forwarded
       THEN /\ pc' = "draw"
            /\ last' = NoOp
            /\ invoked' = EmptyBag
            /\ UNCHANGED <<event_q, pending>>
       ELSE IF owners # "document"
       THEN /\ UNCHANGED event_q
            /\ AfterSend(ev)
       ELSE IF Len(event_q) < EventCapacity
       THEN /\ event_q' = ChannelSend(event_q, ev)
            /\ AfterSend(ev)
       ELSE /\ pc' = "send"
            /\ pending' = Some(ev)
            /\ last' = NoOp
            /\ invoked' = EmptyBag
            /\ UNCHANGED event_q
    /\ UNCHANGED <<root, ui_q, history, nApplied, nOps, pureVars, drawn, owners, received>>

PollEvent == \E ev \in TermEvents : PollRead(ev) /\ UNCHANGED <<polled, input>>

\* the send the loop is suspended in completes once the channel has room
SendResume ==
    /\ pc = "send"
    /\ owners = "document"
    /\ Len(event_q) < EventCapacity
    /\ event_q' = ChannelSend(event_q, pending[1])
    /\ AfterSend(pending[1])
    /\ submit' = "none"
    /\ UNCHANGED <<root, ui_q, history, nApplied, nPolled, treeGhosts, owners, polled,
                   received>>

\* the send the loop is suspended in fails because the receiver was dropped
SendFails ==
    /\ pc = "send"
    /\ owners # "document"
    /\ AfterSend(pending[1])
    /\ submit' = "none"
    /\ UNCHANGED <<root, ui_q, event_q, history, nApplied, nPolled, treeGhosts, owners,
                   polled, received>>

\* the closure of terminal.draw rendering the tree before it lays it out
DrawClosureRenderFirst(tree, screen_area) ==
    [root |-> Layout(tree, screen_area), rendered |-> tree]

\* the closure of terminal.draw: state.root.layout(screen_area), then
\* state.root.render(f) on the tree the layout left
DrawClosure(tree, screen_area) ==
    LET laid == Layout(tree, screen_area)
    IN [root |-> laid, rendered |-> laid]

\* terminal.draw: layout on the screen area, then render
DrawFrame ==
    /\ pc = "draw"
    /\ root' = DrawClosure(root, ScreenArea).root
    /\ pc' = "sleep"
    /\ last' = Op("Layout", "", -1, NoMouse, 0)
    /\ invoked' = EmptyBag
    /\ submit' = "none"
    /\ UNCHANGED <<ui_q, event_q, pending, history, nApplied, nPolled, nOps, pureVars,
                   input, owners, polled, received>>

Draw == DrawFrame /\ UNCHANGED drawn

\* terminal.draw fails before its closure runs; `let _ =` drops the error
DrawFails ==
    /\ pc = "draw"
    /\ pc' = "sleep"
    /\ last' = NoOp
    /\ invoked' = EmptyBag
    /\ submit' = "none"
    /\ UNCHANGED <<root, ui_q, event_q, pending, history, nApplied, nPolled,
                   treeGhosts, owners, polled, received>>

\* tokio::time::sleep(16 ms) elapses
Sleep ==
    /\ pc = "sleep"
    /\ pc' = "drain"
    /\ last' = NoOp
    /\ invoked' = EmptyBag
    /\ submit' = "none"
    /\ UNCHANGED <<root, ui_q, event_q, pending, history, nApplied, nPolled,
                   treeGhosts, owners, polled, received>>

\* the caller reads one event from Document::event_receiver
RecvEvent ==
    /\ owners = "document"
    /\ event_q # <<>>
    /\ event_q' = Tail(event_q)
    /\ last' = NoOp
    /\ invoked' = EmptyBag
    /\ submit' = "none"
    /\ UNCHANGED <<root, ui_q, pc, pending, history, nApplied, nPolled, treeGhosts, owners,
                   polled>>

Recv == RecvEvent /\ UNCHANGED received

\* the Document is dropped, and with it event_rx and the events it buffers;
\* the handles cloned from it may outlive it
DropDocument ==
    /\ owners = "document"
    /\ owners' \in {"handles", "none"}
    /\ event_q' = <<>>
    /\ last' = NoOp
    /\ invoked' = EmptyBag
    /\ submit' = "none"
    /\ UNCHANGED <<root, ui_q, pc, pending, history, nApplied, nPolled, treeGhosts, polled,
                   received>>

\* the last ContainerHandle or WidgetHandle is dropped: no Sender is left
DropHandles ==
    /\ owners = "handles"
    /\ owners' = "none"
    /\ last' = NoOp
    /\ invoked' = EmptyBag
    /\ submit' = "none"
    /\ UNCHANGED <<root, ui_q, event_q, pc, pending, history, nApplied, nPolled, treeGhosts,
                   polled, received>>

Next ==
    \/ Submit
    \/ DrainOne
    \/ DrainEnd
    \/ PollNothing
    \/ PollEvent
    \/ SendResume
    \/ Draw
    \/ DrawFails
    \/ Sleep
    \/ Recv

Spec == Init /\ [][Next]_vars

(***************************************************************************)
(* ChannelSpec: the loop, the consumer of its events, the dropping of the   *)
(* caller's channel ends; the raw events read and the events received are   *)
(* logged                                                                  *)
(***************************************************************************)
\* the commands the producers of ChannelSpec submit
ChannelMessages == {DocumentAddWidget(BtnId, TextWidget(<<1>>))}

ChannelSubmit == SubmitOf(ChannelMessages, MaxCmds)

PollLogged ==
    \E ev \in TermEvents : PollRead(ev) /\ polled' = Append(polled, ev) /\ UNCHANGED input

RecvLogged == RecvEvent /\ received' = Append(received, Head(event_q))

\* one step of the task running RenderLoop::run
LoopStep ==
    \/ DrainOne
    \/ DrainEnd
    \/ PollNothing
    \/ PollLogged
    \/ SendResume
    \/ SendFails
    \/ Draw
    \/ DrawFails
    \/ Sleep

ChannelNext ==
    \/ ChannelSubmit
    \/ LoopStep
    \/ RecvLogged
    \/ DropDocument
    \/ DropHandles

ChannelSpec == Init /\ [][ChannelNext]_vars

\* the runtime keeps running the loop's task: a step it can take is taken
LiveSpec == ChannelSpec /\ WF_vars(LoopStep)

(***************************************************************************)
(* FrameSpec: the loop with the raw events waiting at the terminal and the  *)
(* tree each frame rendered                                                *)
(***************************************************************************)
\* the commands the producers of FrameSpec submit
FrameMessages ==
    {DocumentAddContainer(ColId, StyleDefault),
     DocumentAddWidget(BtnId, TextWidget(<<1>>)),
     ContainerHandleAddWidget(ColId, BtnId, TextWidget(<<1>>)),
     MsgAddEventListener(BtnId, "Click", "cb", 0)}

\* the raw events that arrive at the terminal in FrameSpec
FrameEvents ==
    {TermKey, TermMouse(MouseEvent("Down", 0, 0)), TermMouse(MouseEvent("Down", 0, 1)),
     TermFocus}

\* the terminal receives one more raw event
Arrive ==
    /\ Len(input) + nPolled < MaxPolled
    /\ \E ev \in FrameEvents : input' = Append(input, ev)
    /\ last' = NoOp
    /\ invoked' = EmptyBag
    /\ submit' = "none"
    /\ UNCHANGED <<root, ui_q, event_q, pc, pending, history, nApplied, nPolled, nOps,
                   pureVars, drawn, owners, polled, received>>

\* crossterm::event::poll reports an event and read takes the oldest one
PollQueued ==
    /\ input # <<>>
    /\ PollRead(Head(input))
    /\ input' = Tail(input)
    /\ UNCHANGED polled

\* terminal.draw, recording the tree its closure rendered
DrawLogged ==
    /\ DrawFrame
    /\ drawn' = Some(DrawClosure(root, ScreenArea).rendered)

FrameNext ==
    \/ SubmitOf(FrameMessages, MaxFrameCmds)
    \/ Arrive
    \/ DrainOne
    \/ DrainEnd
    \/ PollNothing
    \/ PollQueued
    \/ SendResume
    \/ DrawLogged
    \/ DrawFails
    \/ Sleep
    \/ Recv

FrameSpec == Init /\ [][FrameNext]_vars

(***************************************************************************)
(* ListenerSpec: nodes and listeners added and removed, presses dispatched  *)
(***************************************************************************)
\* the commands applied to the tree in ListenerSpec
ListenerMessages ==
    {DocumentAddContainer(ColId, StyleDefault),
     DocumentAddWidget(BtnId, TextWidget(<<1>>)),
     ContainerHandleAddWidget(ColId, BtnId, TextWidget(<<1>>)),
     MsgAddEventListener(BtnId, "Click", "cb", 0),
     WidgetHandleRemove(BtnId),
     WidgetHandleRemove(ColId),
     WidgetHandleRemove(RootId)}

\* the presses dispatched in ListenerSpec
ListenerPresses == {MouseEvent("Down", 0, 0), MouseEvent("Down", 0, 1)}

\* one call on the tree; a removal leaves in `orphaned` the ids of the
\* listeners that fewer nodes hold after it than before, and a registration
\* under an id makes that id a new listener
ListenerCall(op, tree, bag) ==
    /\ nOps < MaxListenerOps
    /\ nOps' = nOps + 1
    /\ root' = tree
    /\ last' = op
    /\ invoked' = bag
    /\ submit' = "none"
    /\ orphaned' =
          IF op.op = "RemoveWidget"
          THEN orphaned \cup {n \in ListenerIds :
                                Cardinality(Holders(tree, n)) < Cardinality(Holders(root, n))}
          ELSE IF op.op = "AddEventListener" THEN orphaned \ {op.listener_id}
          ELSE orphaned
    /\ UNCHANGED <<ui_q, event_q, pc, pending, history, nApplied, nPolled, owners, polled,
                   received, input, drawn, calc, idVars>>

ListenerNext ==
    \/ \E msg \in ListenerMessages :
          ListenerCall(OpOfMessage(msg, root), ApplyMessage(root, msg), EmptyBag)
    \/ ListenerCall(Op("Layout", "", -1, NoMouse, 0), Layout(root, ScreenArea), EmptyBag)
    \/ \E mouse \in ListenerPresses :
          ListenerCall(Op("Dispatch", "", -1, mouse, 0), root,
                       DispatchMouseEvent(root, mouse))

ListenerSpec == Init /\ [][ListenerNext]_vars

(***************************************************************************)
(* BuildSpec: Document::add_container, ContainerHandle::add_widget and      *)
(* Node::layout, one call per step                                          *)
(***************************************************************************)
LeafIds == {"a", "b"}
ColumnStyles == {StyleColumn(StyleNew), StyleRow(StyleNew)}
\* an 80 x 24 terminal, one of odd height, and the screen of the other specifications
TermArea == Rect(0, 0, 80, 24)
BuildAreas == {TermArea, Rect(0, 0, 80, 25), ScreenArea}

BAddContainer ==
    \E style \in ColumnStyles : CallMessage(DocumentAddContainer(ColId, style))

BAddWidget ==
    \E id \in LeafIds, widget \in Widgets :
        CallMessage(ContainerHandleAddWidget(ColId, id, widget))

BLayout ==
    \E area \in BuildAreas :
        Call(Op("Layout", "", -1, NoMouse, 0), Layout(root, area), EmptyBag)

BuildNext ==
    \/ BAddContainer
    \/ BAddWidget
    \/ BLayout

BuildSpec == Init /\ [][BuildNext]_vars

(***************************************************************************)
(* StyleSpec: one call of Style::calculate_children_areas                  *)
(***************************************************************************)
CalcDirections == {"Row", "Column"}
CalcGaps == {0, 1, U16Max}
CalcPaddings == {RectOffsetDefault, RectOffset(0, 0, 0, 1), RectOffsetAll(1)}
CalcStyles ==
    {StylePadding(StyleGap(IF d = "Row" THEN StyleRow(StyleNew)
                                        ELSE StyleColumn(StyleNew), g), p) :
       d \in CalcDirections, g \in CalcGaps, p \in CalcPaddings}
\* origins next to both ends of the u16 range, extents up to MaxExtent;
\* as for every ratatui Rect, the far edges stay within u16
CalcOrigins == {0, 1, U16Max - 1}
CalcAreas ==
    {r \in {Rect(x, y, w, h) : x \in CalcOrigins, y \in {0, 1},
                                w \in 0..MaxExtent, h \in 0..MaxExtent} :
       r.x + r.width <= U16Max}
\* numbers of children, one of them a multiple of 2^16
CalcCounts == (0..MaxChildren) \cup {U16Modulus}

Calculate ==
    /\ calc = NoCalc
    /\ \E style \in CalcStyles, parent_area \in CalcAreas, n \in CalcCounts,
          overflow_checks \in BOOLEAN :
          calc' = [called |-> TRUE, style |-> style, parent_area |-> parent_area,
                   n |-> n, overflow_checks |-> overflow_checks,
                   outcome |-> CalcOutcome(style, parent_area, n, overflow_checks)]
    /\ UNCHANGED <<programVars, idVars>>

StyleNext == Calculate

StyleSpec == Init /\ [][StyleNext]_vars

(***************************************************************************)
(* IdSpec: ListenerId::new called from several threads                     *)
(***************************************************************************)
\* COUNTER.fetch_add(1, Ordering::Relaxed) keeping the counter as it was
FetchAddKeeps(counter) == [previous |-> counter, counter |-> counter]

\* COUNTER.fetch_add(1, Ordering::Relaxed): one atomic read-modify-write (the
\* u64 wraps after 2^64 calls, far beyond the calls of a run)
FetchAdd(counter) == [previous |-> counter, counter |-> counter + 1]

SeqMax(seq) ==
    IF seq = <<>> THEN -1
    ELSE CHOOSE m \in {seq[k] : k \in 1..Len(seq)} :
            \A k \in 1..Len(seq) : seq[k] <= m

\* a thread enters ListenerId::new
IdCall(t) ==
    /\ id_calls[t].at = "out"
    /\ Len(id_log) + Cardinality({u \in IdThreads : id_calls[u].at # "out"})
         < MaxIdCalls
    /\ id_calls' = [id_calls EXCEPT ![t] =
                       [at |-> "entered", id |-> -1, floor |-> SeqMax(id_log)]]
    /\ UNCHANGED <<COUNTER, id_log>>

\* the fetch_add of the thread takes effect
IdFetchAdd(t) ==
    /\ id_calls[t].at = "entered"
    /\ LET r == FetchAdd(COUNTER)
       IN /\ COUNTER' = r.counter
          /\ id_calls' = [id_calls EXCEPT ![t].at = "fetched", ![t].id = r.previous]
    /\ UNCHANGED id_log

\* ListenerId::new returns ListenerId(previous) to the thread
IdReturn(t) ==
    /\ id_calls[t].at = "fetched"
    /\ id_log' = Append(id_log, id_calls[t].id)
    /\ id_calls' = [id_calls EXCEPT ![t].at = "out"]
    /\ UNCHANGED COUNTER

IdNext ==
    \/ \E t \in IdThreads : IdCall(t) /\ UNCHANGED <<programVars, calc>>
    \/ \E t \in IdThreads : IdFetchAdd(t) /\ UNCHANGED <<programVars, calc>>
    \/ \E t \in IdThreads : IdReturn(t) /\ UNCHANGED <<programVars, calc>>

IdSpec == Init /\ [][IdNext]_vars

(***************************************************************************)
(* Properties of the owning loop and its channels (Spec)                   *)
(***************************************************************************)
\* C1: the command channel never holds more than its capacity, and a
\* submission made while it holds its capacity returns the Full error in the
\* same step, enqueues nothing and leaves the loop and the tree where they were.
C1_SubmissionFailsFast ==
    [][/\ Len(ui_q') <= UiCapacity
       /\ (submit' # "none" /\ Len(ui_q) >= UiCapacity) =>
             /\ submit' = "Full"
             /\ ui_q' = ui_q
             /\ history' = history
             /\ pc' = pc
             /\ root' = root]_vars

C1_Witness ==
    /\ submit = "Full"
    /\ Len(ui_q) = UiCapacity
    /\ Len(history) = UiCapacity + nApplied

\* C2 as claimed: when a raw event is read while the event channel is full,
\* the event is dropped and the loop goes on to layout and render.
C2_FullEventChannelDropsEvent ==
    [][(pc = "poll" /\ nPolled' = nPolled + 1 /\ Len(event_q) >= EventCapacity) =>
          (pc' = "draw" /\ event_q' = event_q /\ pending' = None)]_vars

RECURSIVE ApplyAll(_, _)
\* the commands of a sequence applied one after the other
ApplyAll(tree, msgs) ==
    IF msgs = <<>> THEN tree ELSE ApplyAll(ApplyMessage(tree, Head(msgs)), Tail(msgs))

RECURSIVE Structure(_)
RECURSIVE StructureChildren(_, _)
\* the children of a node, each without the areas the layout pass computes
StructureChildren(children, k) ==
    IF k > Len(children) THEN <<>>
    ELSE <<Structure(children[k])>> \o StructureChildren(children, k + 1)

\* a tree without the areas the layout pass computes
Structure(node) ==
    [node EXCEPT
       !.area = RectDefault,
       !.content_area = RectDefault,
       !.children = StructureChildren(node.children, 1)]

\* C3: the drain ends only on an empty channel; the commands still queued are
\* the accepted commands not yet applied, in submission order; and the tree is
\* the accepted commands applied so far, one after the other in that order.
C3_DrainIsFifo ==
    [][/\ (pc = "drain" /\ pc' # "drain") => ui_q = <<>>
       /\ nApplied' <= Len(history')
       /\ ui_q' = SubSeq(history', nApplied' + 1, Len(history'))
       /\ Structure(root') =
            Structure(ApplyAll(NodeNew(RootId), SubSeq(history', 1, nApplied')))]_vars

C3_Witness ==
    /\ pc = "poll"
    /\ nApplied = MaxCmds
    /\ \E e \in Nodes(root, 0) : e.depth = 2 /\ e.node.id = BtnId

(***************************************************************************)
(* Properties of the tree operations and of the dispatcher (TreeSpec)      *)
(***************************************************************************)
\* a node matches a point when its area contains it and, if the node holds a
\* widget, its content_area contains it too
Matches(node, x, y) ==
    /\ RectContains(node.area, x, y)
    /\ node.widget # NoWidget => RectContains(node.content_area, x, y)

ClickRegistered(node, listener_id) ==
    \E l \in node.listeners : l.event_type = "Click" /\ l.listener_id = listener_id

\* the latest step invoked the listener exactly once, for a Click on target_id
InvokedOnce(listener_id, target_id) ==
    \E i \in BagToSet(invoked) :
        /\ i.listener_id = listener_id
        /\ i.ctx.target_id = target_id
        /\ i.ctx.event_type = "Click"
        /\ CopiesIn(i, invoked) = 1
        /\ \A j \in BagToSet(invoked) : j.listener_id = listener_id => j = i

PressDispatched == last.op = "Dispatch" /\ last.mouse.kind = "Down"

\* C4 as claimed: a press dispatched at any point of the last-computed area of
\* a node "btn" invokes every Click listener registered on that node exactly
\* once, with target_id "btn".
C4_PressInsideAreaFiresOnce ==
    \A e \in NodesWithId(root, BtnId), lid \in ListenerIds :
        ( /\ PressDispatched
          /\ ClickRegistered(e.node, lid)
          /\ RectContains(e.node.area, last.mouse.column, last.mouse.row) )
        => InvokedOnce(lid, BtnId)

\* the point of the latest dispatched event is one where the node is the
\* hit-test match: inside its area, inside its content_area when it holds a
\* widget, and matched by none of its descendants
PointOwnedBy(e) ==
    /\ Matches(e.node, last.mouse.column, last.mouse.row)
    /\ \A f \in Nodes(e.node, 0) :
          f.depth >= 1 => ~Matches(f.node, last.mouse.column, last.mouse.row)

\* C4 amended: when "btn" names exactly one node, a press dispatched at a point
\* inside that node's last-computed area, inside its content_area when it holds
\* a widget, and matched by no descendant of it, invokes every Click listener
\* registered on the node exactly once, with target_id "btn".
C4_PressOnBtnFiresOnce ==
    \A e \in NodesWithId(root, BtnId), lid \in ListenerIds :
        ( /\ PressDispatched
          /\ Cardinality(NodesWithId(root, BtnId)) = 1
          /\ ClickRegistered(e.node, lid)
          /\ PointOwnedBy(e) )
        => InvokedOnce(lid, BtnId)

C4_Witness ==
    /\ PressDispatched
    /\ Cardinality(NodesWithId(root, BtnId)) = 1
    /\ \E e \in NodesWithId(root, BtnId), lid \in ListenerIds :
          /\ e.node.widget # NoWidget
          /\ ClickRegistered(e.node, lid)
          /\ PointOwnedBy(e)
          /\ InvokedOnce(lid, BtnId)

\* C5: once remove_event_listener(lid) has been applied at the root no node of
\* the tree holds an entry with that id under any event type, and a dispatch
\* only ever invokes listeners that are entries of the target node at that time.
C5_ListenerRemovalIsGlobal ==
    /\ last.op = "RemoveEventListener" => Holders(root, last.listener_id) = {}
    /\ \A i \in BagToSet(invoked) :
          \E e \in NodesWithId(root, i.ctx.target_id) :
              \E l \in e.node.listeners :
                  /\ l.listener_id = i.listener_id
                  /\ l.event_type = i.ctx.event_type

C5_Witness ==
    /\ last.op = "RemoveEventListener"
    /\ last.seen >= 2
    /\ Holders(root, last.listener_id) = {}

\* C6 as claimed: after RemoveWidget(id) is applied for a live node other than
\* the root, no node with that id is left in the tree.
C6_RemoveWidgetDestroysNode ==
    (last.op = "RemoveWidget" /\ last.id # RootId /\ last.seen >= 1)
        => last.id \notin LiveIds(root)

MutationsById == {"AddWidget", "AddContainer", "UpdateWidget", "UpdateStyle",
                  "AddEventListener"}

\* C7: AddWidget, AddContainer, UpdateWidget, update_style and AddEventListener
\* naming an id that no node of the tree has leave the whole tree unchanged.
C7_UnknownIdIsNoOp ==
    [][(last'.op \in MutationsById /\ last'.id \notin LiveIds(root)) => root' = root]_vars

C7_Witness ==
    /\ last.op = "AddWidget"
    /\ last.seen = 0
    /\ Len(root.children) >= 1
    /\ root.area = ScreenArea

\* C8: remove_child(root_id) on the root leaves the root in place with its id,
\* style and area, and with no children, no widget and no listeners.
C8_RemoveRootClearsButKeepsRoot ==
    [][(last'.op = "RemoveWidget" /\ last'.id = RootId) =>
          /\ root'.id = root.id
          /\ root'.style = root.style
          /\ root'.area = root.area
          /\ root'.children = <<>>
          /\ root'.widget = NoWidget
          /\ root'.listeners = {}]_vars

C8_Witness ==
    /\ last.op = "RemoveWidget"
    /\ last.id = RootId
    /\ last.seen >= 1
    /\ root.area = ScreenArea
    /\ root.children = <<>>

\* C9: find_widget_at on the root returns no id for a point outside the
\* root's area.
C9_NoHitOutsideRoot ==
    \A x \in Columns, y \in Rows :
        ~RectContains(root.area, x, y) => FindWidgetAt(root, x, y) = None

C9_Witness ==
    /\ root.area = ScreenArea
    /\ Len(root.children) >= 1
    /\ FindWidgetAt(root, 0, 0) # None
    /\ FindWidgetAt(root, ScreenW, 0) = None
    /\ FindWidgetAt(root, 0, ScreenH) = None

\* C10 as claimed: the id find_widget_at returns is that of a deepest node
\* whose area contains the point.
C10_ReturnsDeepestByArea ==
    \A x \in Columns, y \in Rows :
        LET r == FindWidgetAt(root, x, y)
            inArea == {e \in Nodes(root, 0) : RectContains(e.node.area, x, y)}
        IN r # None =>
             \E e \in inArea : e.node.id = r[1] /\ \A f \in inArea : f.depth <= e.depth

\* C10 amended: the id find_widget_at returns is that of a deepest node that
\* matches the point, a node holding a widget matching only when its
\* content_area contains the point as well as its area; it returns no id
\* exactly when no node matches.
C10_ReturnsDeepestMatch ==
    \A x \in Columns, y \in Rows :
        LET r == FindWidgetAt(root, x, y)
            matching == {e \in Nodes(root, 0) : Matches(e.node, x, y)}
        IN /\ r = None => matching = {}
           /\ r # None =>
                \E e \in matching :
                    e.node.id = r[1] /\ \A f \in matching : f.depth <= e.depth

C10_Witness ==
    \E x \in Columns, y \in Rows :
        \E e \in Nodes(root, 0) :
            /\ e.depth = 2
            /\ Matches(e.node, x, y)
            /\ FindWidgetAt(root, x, y) = Some(e.node.id)
            /\ \E f \in Nodes(root, 0) : f.depth = 1 /\ f.node.id # e.node.id

(***************************************************************************)
(* Properties of Style::calculate_children_areas (StyleSpec)               *)
(***************************************************************************)
\* the extent of the parent area left after padding, along the style's flex axis
ContentExtent(style, parent_area) ==
    IF style.flex_direction = "Row"
    THEN Max(parent_area.width - (style.padding.left + style.padding.right), 0)
    ELSE Max(parent_area.height - (style.padding.top + style.padding.bottom), 0)

\* from the start of the first rectangle to the end of the last, along the flex axis
FlexSpan(style, areas) ==
    LET first == areas[1]
        final == areas[Len(areas)]
    IN IF style.flex_direction = "Row"
       THEN final.x + final.width - first.x
       ELSE final.y + final.height - first.y

\* C11: for n = 0 the call returns the empty sequence; for every n >= 1 it
\* returns exactly n rectangles whose span along the flex axis, gaps
\* included, does not exceed the parent's content area.
C11_SpanWithinContentArea ==
    calc.called =>
      /\ ~calc.outcome.panic
      /\ Len(calc.outcome.areas) = calc.n
      /\ calc.n >= 1 =>
           FlexSpan(calc.style, calc.outcome.areas)
             <= ContentExtent(calc.style, calc.parent_area)

SwapDirection(style) ==
    [style EXCEPT !.flex_direction = IF @ = "Row" THEN "Column" ELSE "Row"]
SwapExtents(r) == Rect(r.x, r.y, r.height, r.width)
TransposeRect(r) == Rect(r.y, r.x, r.height, r.width)
TransposePadding(style) ==
    [style EXCEPT !.padding = RectOffset(@.left, @.bottom, @.right, @.top)]

\* the outcome is the transposed image of the outcome of the latest call
TransposedOutcome(outcome) ==
    /\ outcome.panic = calc.outcome.panic
    /\ Len(outcome.areas) = Len(calc.outcome.areas)
    /\ \A k \in 1..Len(outcome.areas) :
         outcome.areas[k] = TransposeRect(calc.outcome.areas[k])

\* C12 as stated: the call with flex_direction swapped and the parent's width
\* and height swapped returns the rectangles of the original call transposed.
C12_SwappedExtentsTranspose ==
    calc.called =>
      TransposedOutcome(CalcOutcome(SwapDirection(calc.style),
                                    SwapExtents(calc.parent_area),
                                    calc.n, calc.overflow_checks))

\* C12: the call with flex_direction swapped, the parent area transposed
\* (x with y, width with height) and the padding transposed (left with top,
\* right with bottom) ends as the original call does, with the rectangles
\* of the original call transposed.
C12_TransposedCallTransposes ==
    calc.called =>
      TransposedOutcome(CalcOutcome(TransposePadding(SwapDirection(calc.style)),
                                    TransposeRect(calc.parent_area),
                                    calc.n, calc.overflow_checks))

C12_Witness ==
    /\ calc.called
    /\ ~calc.outcome.panic
    /\ calc.n >= 2
    /\ calc.style.flex_direction = "Row"
    /\ calc.style.gap = 1
    /\ calc.style.padding.left # calc.style.padding.top
    /\ calc.parent_area.x # calc.parent_area.y
    /\ calc.parent_area.width # calc.parent_area.height
    /\ calc.outcome.areas[2].x > calc.outcome.areas[1].x

(***************************************************************************)
(* Properties of the built and laid out tree (BuildSpec)                   *)
(***************************************************************************)
\* root holds the Column container "col" alone, "col" holds two widget
\* leaves, "a" then "b"
BuiltColumn ==
    /\ Len(root.children) = 1
    /\ LET col == root.children[1]
       IN /\ col.id = ColId
          /\ col.widget = NoWidget
          /\ col.style.flex_direction = "Column"
          /\ Len(col.children) = 2
          /\ col.children[1].id = "a"
          /\ col.children[2].id = "b"
          /\ \A k \in 1..2 : /\ col.children[k].widget # NoWidget
                             /\ col.children[k].children = <<>>

\* twice the height is within two cells of the whole
HalfWithinOne(height, whole) == 2 * height >= whole - 2 /\ 2 * height <= whole + 2

\* C13: after root -> Column container "col" -> widget leaves "a" then "b"
\* and a layout, on (0,0,80,24) as on the other areas, "a" and "b" each
\* occupy half the height of "col"'s content area within one cell, "a" ends
\* where "b" starts or above, so the two do not overlap, and "a" starts above
\* "b" as soon as "col" is two cells high.
C13_LeavesSplitColumn ==
    (last.op = "Layout" /\ BuiltColumn) =>
      LET col == root.children[1]
          a   == col.children[1].area
          b   == col.children[2].area
      IN /\ HalfWithinOne(a.height, col.content_area.height)
         /\ HalfWithinOne(b.height, col.content_area.height)
         /\ a.y + a.height <= b.y
         /\ col.content_area.height >= 2 => a.y < b.y

C13_Witness ==
    /\ last.op = "Layout"
    /\ BuiltColumn
    /\ root.area = TermArea
    /\ root.children[1].children[1].area = Rect(0, 0, 80, 12)
    /\ root.children[1].children[2].area = Rect(0, 12, 80, 12)

(***************************************************************************)
(* Properties of the tree under any sequence of calls (TreeSpec)           *)
(***************************************************************************)
\* C14: every node is a container (no widget) or a widget leaf (a widget and
\* no children): no node has both a widget and children.
C14_ContainerOrLeaf ==
    \A e \in Nodes(root, 0) : e.node.widget = NoWidget \/ e.node.children = <<>>

\* the semantic event type of a raw pointer kind
SemanticType(kind) ==
    CASE kind = "Down"       -> "Click"
      [] kind = "Moved"      -> "Hover"
      [] kind = "ScrollUp"   -> "ScrollUp"
      [] kind = "ScrollDown" -> "ScrollDown"
      [] OTHER               -> "none"

\* the entry of a node's listener table an invocation comes from
EntryOf(i) ==
    [event_type |-> i.ctx.event_type, listener_id |-> i.listener_id,
     listener |-> i.listener]

\* C16: a dispatched press, move, scroll-up or scroll-down invokes listeners
\* for Click, Hover, ScrollUp or ScrollDown and no other type, and invokes every
\* listener of that type registered on a uniquely named node owning the
\* point; a drag, a release or any other pointer kind invokes no listener.
C16_PointerKindsMapToTypes ==
    last.op = "Dispatch" =>
      LET type == SemanticType(last.mouse.kind)
      IN /\ type = "none" => invoked = EmptyBag
         /\ \A i \in BagToSet(invoked) : i.ctx.event_type = type
         /\ \A e \in Nodes(root, 0) : \A l \in e.node.listeners :
               ( /\ l.event_type = type
                 /\ Cardinality(NodesWithId(root, e.node.id)) = 1
                 /\ PointOwnedBy(e) )
               => \E i \in BagToSet(invoked) : EntryOf(i) = l

C16_Witness ==
    /\ last.op = "Dispatch"
    /\ last.mouse.kind = "ScrollUp"
    /\ invoked # EmptyBag
    /\ \A i \in BagToSet(invoked) : i.ctx.event_type = "ScrollUp"

\* the node dispatch_mouse_event calls trigger_event on: the first node, in
\* pre-order, that carries the id the hit-test returned
TriggeredNode ==
    LET target == FindWidgetAt(root, last.mouse.column, last.mouse.row)
    IN IF target = None THEN None ELSE FindChildMut(root, target[1])

HitNode == FindWidgetAtPath(root, last.mouse.column, last.mouse.row)

\* every invocation of the latest step is an entry of the node at the path
InvokedOnlyAt(path) ==
    \A i \in BagToSet(invoked) :
        /\ EntryOf(i) \in NodeAt(root, path).listeners
        /\ CopiesIn(i, invoked) = 1

IdsObtained ==
    id_log \o
      (LET Held[T \in SUBSET IdThreads] ==
             IF T = {} THEN <<>>
             ELSE LET t == CHOOSE u \in T : TRUE
                  IN (IF id_calls[t].at = "fetched" THEN <<id_calls[t].id>> ELSE <<>>)
                       \o Held[T \ {t}]
       IN Held[IdThreads])

\* C20: no two calls of ListenerId::new, concurrent or not, obtain the same
\* id, and a call that started after another call had returned obtains a
\* strictly larger id than that call did.
C20_IdsDistinctAndIncreasing ==
    /\ \A j, k \in 1..Len(IdsObtained) : j # k => IdsObtained[j] # IdsObtained[k]
    /\ \A t \in IdThreads :
          id_calls[t].at = "fetched" => id_calls[t].id > id_calls[t].floor

\* two calls overlap, both have their ids, and a third call that started
\* after a return has its id too
C20_Witness ==
    /\ Len(id_log) >= 1
    /\ \E t, u \in IdThreads :
          /\ t # u
          /\ id_calls[t].at = "fetched"
          /\ id_calls[u].at = "fetched"
          /\ id_calls[t].floor = -1
          /\ id_calls[u].floor >= 0

(***************************************************************************)
(* C15: the root node survives every command                               *)
(***************************************************************************)
\* C15: after any sequence of calls on the loop's tree, the removal of
\* "root" included, the tree's top node is a node with id "root"
C15_RootSurvives == root.id = RootId

\* the removal of "root" was applied to a root that had descendants: they are
\* gone, the root is still there
C15_Witness ==
    /\ last.op = "RemoveWidget"
    /\ last.id = RootId
    /\ last.seen >= 1
    /\ root.id = RootId
    /\ root.children = <<>>

(***************************************************************************)
(* C18: the loop after the channels are disconnected                       *)
(***************************************************************************)
\* C18: once the Document and every handle are dropped (no command sender
\* and no event receiver is left), the loop eventually stops iterating: from
\* some point on it never again reaches the sleep that ends an iteration
C18_DisconnectionEndsLoop == (owners = "none") ~> [](pc # "sleep")

(***************************************************************************)
(* C19: the events the caller receives                                     *)
(***************************************************************************)
RECURSIVE IsSubsequence(_, _)
\* s can be obtained from t by deleting elements of t
IsSubsequence(s, t) ==
    IF s = <<>> THEN TRUE
    ELSE IF t = <<>> THEN FALSE
    ELSE IF Head(s) = Head(t) THEN IsSubsequence(Tail(s), Tail(t))
    ELSE IsSubsequence(s, Tail(t))

\* the Key, Mouse and Resize events among the raw events the loop read
PolledForwarded == SelectSeq(polled, LAMBDA ev : ev.type \in Forwarded)

RECURSIVE RemoveFirst(_, _)
\* the children without the first of them whose id is `id`
RemoveFirst(children, id) ==
    IF children = <<>> THEN <<>>
    ELSE IF Head(children).id = id THEN Tail(children)
    ELSE <<Head(children)>> \o RemoveFirst(Tail(children), id)

\* C21 as claimed: remove_child(id) on a node whose own id differs from id
\* removes the first direct child with that id and nothing else: a later
\* child with the same id, the deeper descendants and the order of the
\* children that remain are unchanged.
C21_RemovesFirstDirectChildOnly ==
    [][(last'.op = "RemoveWidget" /\ last'.id # root.id) =>
          root' = [root EXCEPT !.children = RemoveFirst(@, last'.id)]]_vars

(***************************************************************************)
(* C22: the arithmetic of calculate_children_areas                         *)
(***************************************************************************)
\* C22 as claimed: for every parent area, padding, gap and child count
\* n >= 1, calculate_children_areas returns (it does not panic) and none of
\* its arithmetic steps (gap * (n - 1), the padding sums, the child offsets)
\* leaves the range of u16.
C22_NoOverflowNoWrap ==
    (calc.called /\ calc.n >= 1) =>
      /\ ~calc.outcome.panic
      /\ ~CalculateChildrenAreasOverflows(calc.style, calc.parent_area, calc.n)

(***************************************************************************)
(* C24: the phases of one iteration                                        *)
(***************************************************************************)
\* the moves of the loop from one phase to the next
PhaseMoves ==
    {<<"drain", "poll">>, <<"poll", "draw">>, <<"poll", "send">>, <<"send", "draw">>,
     <<"draw", "sleep">>, <<"sleep", "drain">>}

\* C24: the loop moves through drain, poll (with its send and dispatch),
\* draw and sleep in that order; commands are applied only while draining
\* and listeners invoked only by the poll phase; the tree changes only by a
\* drained command or by the layout of a frame; a frame lays the tree out on
\* the screen area and renders the tree exactly as that layout left it, with
\* areas that are the ones layout computes from the rendered tree.
C24_PhasesInOrder ==
    [][/\ pc' # pc => <<pc, pc'>> \in PhaseMoves
       /\ nApplied' # nApplied => pc = "drain" /\ pc' = "drain"
       /\ invoked' # EmptyBag => pc \in {"poll", "send"} /\ pc' = "draw"
       /\ root' # root => \/ pc = "drain" /\ nApplied' = nApplied + 1
                          \/ pc = "draw" /\ pc' = "sleep"
       /\ drawn' # drawn => pc = "draw" /\ pc' = "sleep" /\ last'.op = "Layout"
       /\ (pc = "draw" /\ pc' = "sleep" /\ last'.op = "Layout") =>
             /\ root' = Layout(root, ScreenArea)
             /\ drawn' = Some(root')
             /\ Layout(root', ScreenArea) = root']_vars

\* a frame was rendered with two children of root laid out one below the other
C24_Witness ==
    /\ pc = "sleep"
    /\ last.op = "Layout"
    /\ drawn = Some(root)
    /\ Len(root.children) = 2
    /\ root.children[1].area = Rect(0, 0, ScreenW, 1)
    /\ root.children[2].area = Rect(0, 1, ScreenW, 1)

(***************************************************************************)
(* C25: the matching rule of the hit-test                                  *)
(***************************************************************************)
\* the children of the node on which find_widget_at returns an id
MatchingChildren(node, x, y) ==
    {k \in 1..Len(node.children) : FindWidgetAt(node.children[k], x, y) # None}

Handled(ev) ==
    /\ ev.type \in Forwarded => event_q' = Append(event_q, ev)
    /\ ev.type = "Mouse" => last'.op = "Dispatch" /\ last'.mouse = ev.mouse
    /\ pc' = "draw"

\* C26: a step that takes events from the terminal takes exactly the oldest
\* one and leaves the others waiting; it is a step of the poll phase, which
\* forwards the event and dispatches it if it is a pointer event, or suspends
\* in the send of that event, which the resumed send then forwards and
\* dispatches; the poll phase is entered only from the drain and the drain
\* only from the sleep, so no iteration reads two events.
C26_OneEventPerIteration ==
    [][/\ input' # input /\ Len(input') <= Len(input) =>
             /\ input # <<>>
             /\ input' = Tail(input)
             /\ nPolled' = nPolled + 1
             /\ pc = "poll"
             /\ \/ Handled(Head(input))
                \/ /\ Head(input).type \in Forwarded
                   /\ pc' = "send"
                   /\ pending' = Some(Head(input))
       /\ (pc = "send" /\ pc' # "send") => Handled(pending[1])
       /\ nPolled' # nPolled => Len(input') = Len(input) - 1
       /\ (pc' = "poll" /\ pc # "poll") => pc = "drain"
       /\ (pc' = "drain" /\ pc # "drain") => pc = "sleep"]_vars

\* two events were waiting; the loop read the first, a pointer event, and
\* dispatched it; the second still waits
C26_Witness ==
    /\ nPolled = 1
    /\ Len(input) = 1
    /\ pc = "draw"
    /\ last.op = "Dispatch"
    /\ Len(event_q) = 1
    /\ event_q[1].type = "Mouse"

(***************************************************************************)
(* C27: nodes added since the latest frame                                 *)
(***************************************************************************)
RECURSIVE Paths(_)
\* the paths of all the nodes of a tree
Paths(node) ==
    {<<>>} \cup UNION {{<<k>> \o p : p \in Paths(node.children[k])} :
                          k \in 1..Len(node.children)}

\* the node at the path was added to the tree after the latest frame was laid
\* out and rendered (the commands of FrameSpec only append children, so a
\* path keeps naming the same node)
Fresh(path) == path # <<>> /\ (drawn = None \/ path \notin Paths(drawn[1]))

\* C27 as claimed: a node added since the latest layout is neither the node a
\* dispatched pointer event hits nor the node whose listeners it invokes.
C27_FreshNodeNeverTarget ==
    last.op = "Dispatch" =>
      /\ HitNode # None => ~Fresh(HitNode[1])
      /\ invoked # EmptyBag => ~Fresh(TriggeredNode[1])

\* C27: a node added since the latest layout has an empty area and is never
\* the node a dispatched pointer event hits; its listeners are invoked by the
\* event only when it carries the id of the node that was hit, which then
\* names more than one node.
C27_FreshNodeNeverHit ==
    /\ \A path \in Paths(root) : Fresh(path) => NodeAt(root, path).area = RectDefault
    /\ last.op = "Dispatch" =>
         /\ HitNode # None => ~Fresh(HitNode[1])
         /\ (invoked # EmptyBag /\ Fresh(TriggeredNode[1])) =>
               /\ NodeAt(root, TriggeredNode[1]).id = NodeAt(root, HitNode[1]).id
               /\ Cardinality(NodesWithId(root, NodeAt(root, HitNode[1]).id)) >= 2

\* "btn" was added and given a Click listener in the drain of this iteration;
\* the press lands where "btn" will be laid out, hits the root and invokes
\* nothing
C27_Witness ==
    /\ last.op = "Dispatch"
    /\ last.mouse.kind = "Down"
    /\ drawn # None
    /\ Len(root.children) = 1
    /\ Fresh(<<1>>)
    /\ root.children[1].id = BtnId
    /\ root.children[1].listeners # {}
    /\ HitNode = Some(<<>>)
    /\ invoked = EmptyBag

(***************************************************************************)
(* C28: the listeners of removed nodes                                     *)
(***************************************************************************)
\* C28 as claimed: a listener that was on a node when the node was removed is
\* never invoked afterwards.
C28_OrphanedNeverInvoked ==
    \A i \in BagToSet(invoked) : i.listener_id \notin orphaned

\* C28: listeners live in the table of their node and nowhere else: every
\* invocation of a dispatch is an entry of the table of the node triggered,
\* a node of the tree; and only a registration puts entries into a table: a
\* node that has listeners after any other call, the adding of a node with
\* the id of a removed node included, is a node that had the same listeners
\* before the call.
C28_ListenersDieWithNode ==
    [][/\ last'.op = "Dispatch" =>
             \A i \in BagToSet(invoked') :
                 LET target == FindWidgetAt(root', last'.mouse.column, last'.mouse.row)
                 IN /\ target # None
                    /\ FindChildMut(root', target[1]) # None
                    /\ EntryOf(i) \in
                         NodeAt(root', FindChildMut(root', target[1])[1]).listeners
       /\ last'.op # "AddEventListener" =>
             \A e \in Nodes(root', 0) :
                 e.node.listeners # {} =>
                    \E d \in Nodes(root, 0) :
                        d.node.id = e.node.id /\ d.node.listeners = e.node.listeners]_vars

\* "btn" had a Click listener and was removed; a new "btn" was added and laid
\* out, and a press that hits it invokes nothing
C28_Witness ==
    /\ last.op = "Dispatch"
    /\ 0 \in orphaned
    /\ HitNode # None
    /\ NodeAt(root, HitNode[1]).id = BtnId
    /\ NodeAt(root, HitNode[1]).listeners = {}
    /\ Cardinality(NodesWithId(root, BtnId)) = 1
    /\ invoked = EmptyBag

====
